---- MODULE Spec2Model ----
(***************************************************************************)
(* Model of the App core of the Amp lighting controller                    *)
(* (src/main/src/app.cpp): the orchestrator's processing cycle, the        *)
(* renderer lifecycle (setLightMode / onPowerDown), the render host task   *)
(* loop, the command mapping and the listener fan-out.                     *)
(*                                                                         *)
(* Orchestrator handlers (process, onPowerDown) run on one task and are    *)
(* modelled as one step each.  Every render host task is a process of its  *)
(* own whose loop body takes two steps (the test of app->renderer, then    *)
(* the call through app->renderer), so the orchestrator can run between    *)
(* them.                                                                   *)
(***************************************************************************)
EXTENDS Integers, Sequences, FiniteSets, TLC

\* ------------------------------------------------------------------ bounds
\* Renderer instances (and render host tasks) created in one run.
MaxRenderers == 2
\* Render listeners registered in one run.
MaxListeners == 2
\* Depth of a listener's lightsChangedQueue.
ListenerQueueLen == 1
\* Depth of a renderer's brake / turn / headlight command queue.
RendererQueueLen == 1
\* Vehicle state samples posted between two processing cycles.
MaxPending == 3
\* The highest layer of a LightingParameters (the field is a uint8_t).
MaxLayer == 3
\* LightingParameters in one collection to sort.
MaxParameters == 3

\* ------------------------------------------------------- program constants
\* The null pointer / null handle.
NULL == 0
\* xQueueCreate(1, sizeof(bool))
ConfigQueueLen == 1
\* A mode-change queue created with room for two requests.
LightModeQueueOfTwo == 1 + 1
\* xQueueCreate(1, sizeof(LightMode))
LightModeQueueLen == 1
\* xQueueCreate(5, sizeof(VehicleState))
VehicleQueueLen == 5

\* The LightMode values setLightMode switches on; OtherMode stands for every
\* value outside them (the switch's default branch).
LightModes ==
  {"RunningMode", "TheaterChaseRainbowMode", "TheaterChaseMode",
   "RainbowMode", "LightningMode", "OtherMode"}

\* AccelerationState, TurnState, Orientation as switched on by the command
\* mapping; the Other* values stand for every value outside the named cases.
AccelerationStates == {"Braking", "Neutral", "OtherAcceleration"}
TurnStates == {"Center", "Left", "Right", "Hazard", "OtherTurn"}
Orientations == {"TopSideUp", "OtherOrientation"}

VehicleStates ==
  [acceleration : AccelerationStates, turn : TurnStates, orientation : Orientations]

VehicleStateOf(acceleration, turn, orientation) ==
  [acceleration |-> acceleration, turn |-> turn, orientation |-> orientation]

\* The mode before the first mode change: the constructor does not set it.
\* Two representatives, a named mode and a value outside the named ones.
InitialModes == {"RunningMode", "OtherMode"}

\* The samples the vehicle state producer posts.
SampleStates ==
  {VehicleStateOf("Neutral", "Center", "TopSideUp"),
   VehicleStateOf("Braking", "Left", "TopSideUp"),
   VehicleStateOf("Neutral", "Right", "OtherOrientation")}

\* The samples of the command mapping runs: every value of every field, one
\* field away from the state Neutral / Center / TopSideUp.
MappingStates ==
  {v \in VehicleStates :
     Cardinality({f \in {"acceleration", "turn", "orientation"} :
                    v[f] # VehicleStateOf("Neutral", "Center", "TopSideUp")[f]}) <= 1}

\* The snapshot before the first sample is processed: the constructor does
\* not set it.  Two representatives.
InitialSnapshots ==
  {VehicleStateOf("Neutral", "Center", "TopSideUp"),
   VehicleStateOf("Braking", "Left", "OtherOrientation")}

VARIABLES
  lightMode,          \* App::lightMode
  renderHostHandle,   \* App::renderHostHandle (NULL or a task id)
  renderer,           \* App::renderer (NULL or a renderer instance id)
  instances,          \* every renderer constructed so far, by id
  tasks,              \* every render host task created so far, by id
  renderListeners,    \* App::renderListeners, each with its lightsChangedQueue
  vehicleState,       \* App::vehicleState, the stored snapshot
  configUpdatedQueue, \* App::configUpdatedQueue
  lightModeQueue,     \* App::lightModeQueue
  vehicleQueue,       \* App::vehicleQueue
  trace,              \* calls made by the last orchestrator handler, in order
  parameters,         \* a collection of LightingParameters
  outcome             \* what the last operation on the collection gave

vars ==
  <<lightMode, renderHostHandle, renderer, instances, tasks, renderListeners,
    vehicleState, configUpdatedQueue, lightModeQueue, vehicleQueue, trace,
    parameters, outcome>>

\* The effect layer model, which no App handler touches.
layers == <<parameters, outcome>>

\* The App object as one record, so that a handler is the composition of the
\* functions it calls.
AppState ==
  [lightMode |-> lightMode, renderHostHandle |-> renderHostHandle,
   renderer |-> renderer, instances |-> instances, tasks |-> tasks,
   renderListeners |-> renderListeners, vehicleState |-> vehicleState,
   trace |-> <<>>]

Min(a, b) == IF a < b THEN a ELSE b

\* A send that makes room in a full queue by discarding its oldest item.
xQueueSendDiscardingOldest(queue, item, length) ==
  IF Len(queue) < length
    THEN Append(queue, item)
    ELSE Append(Tail(queue), item)

\* xQueueSend(queue, &item, 0): appended when there is room, else dropped.
xQueueSend(queue, item, length) ==
  IF Len(queue) < length THEN Append(queue, item) ELSE queue

\* A send into a queue that keeps the latest items: the oldest gives way.
xQueueOverwrite(queue, item, length) ==
  IF Len(queue) < length
    THEN Append(queue, item)
    ELSE Append(SubSeq(queue, 2, length), item)

Log(s, event) == [s EXCEPT !.trace = Append(@, event)]

\* A FreeRTOS queue handle: not created (NULL) or created with its content.
NullQueue == [created |-> FALSE, items |-> <<>>]
NewQueue == [created |-> TRUE, items |-> <<>>]

\* ------------------------------------------------------------ listener fan-out
LightCommandsOf(mode, brakeCommand, turnCommand, headlightCommand) ==
  [mode |-> mode, brakeCommand |-> brakeCommand, turnCommand |-> turnCommand,
   headlightCommand |-> headlightCommand]

\* One listener's turn in the loop of notifyLightsChanged.
NotifyListener(listener, commands) ==
  IF listener.lightsChangedQueue.created
    THEN [listener EXCEPT !.lightsChangedQueue.items =
            xQueueSend(@, commands, ListenerQueueLen)]
    ELSE listener

\* A fan-out that gives up at the first listener it cannot deliver to.
RECURSIVE NotifyListenersUntilFailure(_, _, _)
NotifyListenersUntilFailure(listeners, i, commands) ==
  IF i > Len(listeners) THEN listeners
  ELSE IF /\ listeners[i].lightsChangedQueue.created
          /\ Len(listeners[i].lightsChangedQueue.items) < ListenerQueueLen
    THEN NotifyListenersUntilFailure(
           [listeners EXCEPT ![i] = NotifyListener(@, commands)], i + 1, commands)
    ELSE listeners

\* for (auto listener : renderListeners) ...  from listener i on.
RECURSIVE NotifyListeners(_, _, _)
NotifyListeners(listeners, i, commands) ==
  IF i > Len(listeners) THEN listeners
  ELSE NotifyListeners(
         [listeners EXCEPT ![i] = NotifyListener(@, commands)], i + 1, commands)

notifyLightsChanged(s, brakeCommand, turnCommand, headlightCommand) ==
  LET commands ==
        LightCommandsOf(s.lightMode, brakeCommand, turnCommand, headlightCommand)
  IN  Log([s EXCEPT !.renderListeners = NotifyListeners(@, 1, commands)],
          [op |-> "notify", commands |-> commands])

\* --------------------------------------------------- renderer command sends
\* xQueueSend into one command queue of the active renderer, guarded as in
\* setHeadlight / setBrakes / setTurnLights.
SendCommand(s, channel, command) ==
  LET r == s.renderer IN
  IF r # NULL /\ s.instances[r][channel].created
    THEN Log([s EXCEPT !.instances[r][channel].items =
                xQueueSend(@, command, RendererQueueLen)],
             [op |-> "send", channel |-> channel, command |-> command,
              instance |-> r])
    ELSE s

setHeadlight(s, command) ==
  notifyLightsChanged(SendCommand(s, "headlightQueue", command),
                      "NoCommand", "NoCommand", command)

\* A setBrakes that sends its command into the turn queue.
setBrakesIntoTurnQueue(s, command) ==
  notifyLightsChanged(SendCommand(s, "turnlightQueue", command),
                      command, "NoCommand", "NoCommand")

setBrakes(s, command) ==
  notifyLightsChanged(SendCommand(s, "brakelightQueue", command),
                      command, "NoCommand", "NoCommand")

\* A setTurnLights that reports its command in the brake field.
setTurnLightsAsBrake(s, command) ==
  notifyLightsChanged(SendCommand(s, "turnlightQueue", command),
                      command, "NoCommand", "NoCommand")

setTurnLights(s, command) ==
  notifyLightsChanged(SendCommand(s, "turnlightQueue", command),
                      "NoCommand", command, "NoCommand")

\* ------------------------------------------------------------ command mapping
\* switch (state) of onAccelerationStateChanged.
AccelerationCommand(state) ==
  CASE state = "Braking" -> "LightsBrake"
    [] OTHER -> "LightsRunning"

\* A turn mapping whose Hazard case falls through to the default.
TurnCommandNoHazard(state) ==
  CASE state = "Left" -> "LightsTurnLeft"
    [] state = "Right" -> "LightsTurnRight"
    [] OTHER -> "LightsTurnCenter"

\* switch (state) of onTurnStateChanged.
TurnCommand(state) ==
  CASE state = "Left" -> "LightsTurnLeft"
    [] state = "Right" -> "LightsTurnRight"
    [] state = "Hazard" -> "LightsTurnHazard"
    [] OTHER -> "LightsTurnCenter"

\* switch (state) of onOrientationChanged.
OrientationCommand(state) ==
  CASE state = "TopSideUp" -> "LightsOff"
    [] OTHER -> "LightsReset"

\* An onAccelerationStateChanged without the test of the renderer.
onAccelerationStateChangedUnguarded(s, state) ==
  setBrakes(s, AccelerationCommand(state))

onAccelerationStateChanged(s, state) ==
  IF s.renderer # NULL THEN setBrakes(s, AccelerationCommand(state)) ELSE s

onTurnStateChanged(s, state) ==
  IF s.renderer # NULL THEN setTurnLights(s, TurnCommand(state)) ELSE s

onOrientationChanged(s, state) ==
  IF s.renderer # NULL
    THEN LET command == OrientationCommand(state)
         IN  setHeadlight(setBrakes(setTurnLights(s, command), command), command)
    ELSE s

\* ---------------------------------------------------------- renderer lifecycle
\* vTaskDelete(handle) of another task: the task stops where it is.
vTaskDelete(s, handle) ==
  Log([s EXCEPT !.tasks[handle].alive = FALSE],
      [op |-> "vTaskDelete", task |-> handle])

\* renderer->shutdown(); through a null renderer the call is a null
\* dereference.
Shutdown(s, r) ==
  IF r = NULL
    THEN Log(s, [op |-> "nullDereference"])
    ELSE Log([s EXCEPT !.instances[r].shutdowns = Min(@ + 1, 2)],
             [op |-> "shutdown", instance |-> r])

\* The renderer class and pattern name the switch of setLightMode selects.
RendererFor(mode) ==
  CASE mode = "TheaterChaseRainbowMode" ->
         [class |-> "PatternRenderer", pattern |-> "theater-chase-rainbow"]
    [] mode = "TheaterChaseMode" ->
         [class |-> "PatternRenderer", pattern |-> "theater-chase"]
    [] mode = "RainbowMode" ->
         [class |-> "PatternRenderer", pattern |-> "rainbow"]
    [] mode = "LightningMode" ->
         [class |-> "PatternRenderer", pattern |-> "lightning"]
    [] OTHER ->
         [class |-> "RunningRenderer", pattern |-> "config"]

\* renderer = new ...Renderer(...): a fresh instance becomes the active one.
\* withQueues: whether the renderer creates its three command queues.
Construct(s, mode, withQueues) ==
  LET r == Len(s.instances) + 1
      q == IF withQueues THEN NewQueue ELSE NullQueue
      instance ==
        [class |-> RendererFor(mode).class, shutdowns |-> 0, processed |-> "never",
         brakelightQueue |-> q, turnlightQueue |-> q, headlightQueue |-> q]
      s1 == Log([s EXCEPT !.instances = Append(@, instance), !.renderer = r],
                [op |-> "new", instance |-> r, class |-> instance.class,
                 pattern |-> RendererFor(mode).pattern])
  IN  IF instance.class = "RunningRenderer"
        THEN Log(s1, [op |-> "render"])
        ELSE s1

\* xTaskCreatePinnedToCore(startRenderHost, ..., pxCreatedTask, 1): the task
\* starts; its handle is stored through pxCreatedTask when that is not NULL.
\* The caller passes the value of renderHostHandle, so the member itself is
\* not written by the call.
xTaskCreatePinnedToCore(s, pxCreatedTask) ==
  LET t == Len(s.tasks) + 1
  IN  Log([s EXCEPT !.tasks = Append(@, [alive |-> TRUE, pc |-> "test"])],
          [op |-> "xTaskCreatePinnedToCore", task |-> t,
           pxCreatedTask |-> pxCreatedTask])

\* notifyLightsChanged() with no argument: every command takes the default
\* of the declaration.
DefaultLightCommand == "NoCommand"

\* if (renderHostHandle != NULL) { ... } of setLightMode.
Teardown(s) ==
  IF s.renderHostHandle # NULL
    THEN [Shutdown(vTaskDelete(s, s.renderHostHandle), s.renderer)
            EXCEPT !.renderer = NULL, !.renderHostHandle = NULL]
    ELSE s

\* A setLightMode that rebuilds the renderer whatever the current mode is.
setLightModeAlways(s0, mode, withQueues) ==
  LET s == Log(s0, [op |-> "setLightMode", mode |-> mode])
      s1 == Teardown(s)
      s2 == Construct(s1, mode, withQueues)
      s3 == xTaskCreatePinnedToCore(s2, s2.renderHostHandle)
  IN  notifyLightsChanged([s3 EXCEPT !.lightMode = mode],
                          DefaultLightCommand, DefaultLightCommand, DefaultLightCommand)

\* A setLightMode whose guard covers the renderer swap but not the fan-out.
setLightModeNotifies(s0, mode, withQueues) ==
  LET s == Log(s0, [op |-> "setLightMode", mode |-> mode])
      s1 == Teardown(s)
      s2 == Construct(s1, mode, withQueues)
      s3 == xTaskCreatePinnedToCore(s2, s2.renderHostHandle)
  IN  notifyLightsChanged(
        IF s.lightMode # mode THEN [s3 EXCEPT !.lightMode = mode] ELSE s,
        DefaultLightCommand, DefaultLightCommand, DefaultLightCommand)

\* A setLightMode that fans out before it updates the current mode.
setLightModeNotifiesFirst(s0, mode, withQueues) ==
  LET s == Log(s0, [op |-> "setLightMode", mode |-> mode]) IN
  IF s.lightMode # mode
    THEN LET s1 == Teardown(s)
             s2 == Construct(s1, mode, withQueues)
             s3 == xTaskCreatePinnedToCore(s2, s2.renderHostHandle)
             s4 == notifyLightsChanged(s3, DefaultLightCommand, DefaultLightCommand, DefaultLightCommand)
         IN  [s4 EXCEPT !.lightMode = mode]
    ELSE s

setLightMode(s0, mode, withQueues) ==
  LET s == Log(s0, [op |-> "setLightMode", mode |-> mode]) IN
  IF s.lightMode # mode
    THEN LET s1 == Teardown(s)
             s2 == Construct(s1, mode, withQueues)
             s3 == xTaskCreatePinnedToCore(s2, s2.renderHostHandle)
         IN  notifyLightsChanged([s3 EXCEPT !.lightMode = mode],
                                 DefaultLightCommand, DefaultLightCommand, DefaultLightCommand)
    ELSE s

\* setLightMode when the allocation of renderer = new ...Renderer(...)
\* fails and operator new throws: the handler is left at the switch, with
\* the assignments made before it and none of those after it.
setLightModeBadAlloc(s0, mode) ==
  LET s == Log(s0, [op |-> "setLightMode", mode |-> mode]) IN
  IF s.lightMode # mode
    THEN Log(Teardown(s), [op |-> "bad_alloc", mode |-> mode])
    ELSE s

\* config = &Config::ampConfig; setLightMode(config->prefs.renderer).
onConfigUpdated(s, configured, withQueues) ==
  setLightMode(Log(s, [op |-> "onConfigUpdated"]), configured, withQueues)

onPowerDown(s0) ==
  LET s == Log(s0, [op |-> "onPowerDown"])
      s1 == IF s.renderHostHandle # NULL
              THEN [vTaskDelete(s, s.renderHostHandle)
                      EXCEPT !.renderHostHandle = NULL]
              ELSE s
  IN  IF s1.renderer # NULL THEN Shutdown(s1, s1.renderer) ELSE s1

\* -------------------------------------------------------------- App::process
\* A drain that keeps the first state it receives.
RECURSIVE DrainKeepFirst(_, _, _)
DrainKeepFirst(queue, state, newVehicleState) ==
  IF Len(queue) = 0
    THEN [state |-> state, newVehicleState |-> newVehicleState]
    ELSE DrainKeepFirst(Tail(queue),
                        IF newVehicleState THEN state ELSE Head(queue), TRUE)

\* while (uxQueueMessagesWaiting(vehicleQueue))
\*   newVehicleState = xQueueReceive(vehicleQueue, &state, 0);
RECURSIVE Drain(_, _, _)
Drain(queue, state, newVehicleState) ==
  IF Len(queue) = 0
    THEN [state |-> state, newVehicleState |-> newVehicleState]
    ELSE Drain(Tail(queue), Head(queue), TRUE)

\* An evaluation that maps every field of the new state, changed or not.
EvaluateLevelTriggered(s, state) ==
  LET s0 == Log(s, [op |-> "evaluate", state |-> state])
      s1 == onAccelerationStateChanged(s0, state.acceleration)
      s2 == onTurnStateChanged(s1, state.turn)
      s3 == onOrientationChanged(s2, state.orientation)
  IN  [s3 EXCEPT !.vehicleState = state]

\* The body of if (newVehicleState) { ... }.
Evaluate(s, state) ==
  LET s0 == Log(s, [op |-> "evaluate", state |-> state])
      s1 == IF s0.vehicleState.acceleration # state.acceleration
              THEN onAccelerationStateChanged(s0, state.acceleration) ELSE s0
      s2 == IF s1.vehicleState.turn # state.turn
              THEN onTurnStateChanged(s1, state.turn) ELSE s1
      s3 == IF s2.vehicleState.orientation # state.orientation
              THEN onOrientationChanged(s2, state.orientation) ELSE s2
  IN  [s3 EXCEPT !.vehicleState = state]

\* A process() that serves the mode request before the configuration signal.
processModeFirst(s0, configQueue, modeQueue, stateQueue, configured, withQueues) ==
  LET s == Log(s0, [op |-> "process", pending |-> Len(stateQueue)])
      s1 == IF Len(modeQueue) > 0
              THEN setLightMode(s, Head(modeQueue), withQueues) ELSE s
      s2 == IF Len(configQueue) > 0 /\ Head(configQueue)
              THEN onConfigUpdated(s1, configured, withQueues) ELSE s1
      drained == Drain(stateQueue, s2.vehicleState, FALSE)
  IN  IF drained.newVehicleState THEN Evaluate(s2, drained.state) ELSE s2

\* process() on the App s with the three inbound queues as given.
\* configured: config->prefs.renderer as read by onConfigUpdated.
process(s0, configQueue, modeQueue, stateQueue, configured, withQueues) ==
  LET s == Log(s0, [op |-> "process", pending |-> Len(stateQueue)])
      s1 == IF Len(configQueue) > 0 /\ Head(configQueue)
              THEN onConfigUpdated(s, configured, withQueues) ELSE s
      s2 == IF Len(modeQueue) > 0
              THEN setLightMode(s1, Head(modeQueue), withQueues) ELSE s1
      drained == Drain(stateQueue, s2.vehicleState, FALSE)
  IN  IF drained.newVehicleState THEN Evaluate(s2, drained.state) ELSE s2

\* The App fields of s become the next state.
Becomes(s) ==
  /\ lightMode' = s.lightMode
  /\ renderHostHandle' = s.renderHostHandle
  /\ renderer' = s.renderer
  /\ instances' = s.instances
  /\ tasks' = s.tasks
  /\ renderListeners' = s.renderListeners
  /\ vehicleState' = s.vehicleState
  /\ trace' = s.trace
  /\ UNCHANGED layers

\* ------------------------------------------------------------------- actions
queues == <<configUpdatedQueue, lightModeQueue, vehicleQueue>>
app ==
  <<lightMode, renderHostHandle, renderer, instances, tasks, renderListeners,
    vehicleState>>

\* The state after construction: the three queues exist and are empty, no
\* renderer, no render host task, no listener.  The mode and the snapshot
\* are whatever the members start as.
Init ==
  /\ lightMode \in InitialModes
  /\ renderHostHandle = NULL
  /\ renderer = NULL
  /\ instances = <<>>
  /\ tasks = <<>>
  /\ renderListeners = <<>>
  /\ vehicleState \in InitialSnapshots
  /\ configUpdatedQueue = <<>>
  /\ lightModeQueue = <<>>
  /\ vehicleQueue = <<>>
  /\ trace = <<>>
  /\ parameters = <<>>
  /\ outcome = [op |-> "none"]

\* One processing cycle.
Process(configured, withQueues) ==
  LET s == process(AppState, configUpdatedQueue, lightModeQueue, vehicleQueue,
                   configured, withQueues)
  IN  /\ Len(s.instances) <= MaxRenderers
      /\ Becomes(s)
      /\ configUpdatedQueue' = <<>>
      /\ lightModeQueue' = <<>>
      /\ vehicleQueue' = <<>>

\* The configuration listener callback, called directly.
OnConfigUpdated(configured, withQueues) ==
  LET s == onConfigUpdated(AppState, configured, withQueues)
  IN  /\ Len(s.instances) <= MaxRenderers
      /\ Becomes(s)
      /\ UNCHANGED queues

\* setLightMode(mode), called directly.
SetLightMode(mode, withQueues) ==
  LET s == setLightMode(AppState, mode, withQueues)
  IN  /\ Len(s.instances) <= MaxRenderers
      /\ Becomes(s)
      /\ UNCHANGED queues

OnPowerDown ==
  /\ Becomes(onPowerDown(AppState))
  /\ UNCHANGED queues

\* setLightMode(mode) whose allocation fails; the exception is caught by a
\* caller and the program goes on.
SetLightModeBadAlloc(mode) ==
  /\ lightMode # mode
  /\ Becomes(setLightModeBadAlloc(AppState, mode))
  /\ UNCHANGED queues

\* setLightMode(mode) whose allocation fails in a build that ends the
\* program there: the device restarts and the App is constructed again.
SetLightModeAbort(mode) ==
  /\ lightMode # mode
  /\ lightMode' \in InitialModes
  /\ renderHostHandle' = NULL
  /\ renderer' = NULL
  /\ instances' = <<>>
  /\ tasks' = <<>>
  /\ renderListeners' = <<>>
  /\ vehicleState' \in InitialSnapshots
  /\ configUpdatedQueue' = <<>>
  /\ lightModeQueue' = <<>>
  /\ vehicleQueue' = <<>>
  /\ trace' = <<>>
  /\ UNCHANGED layers

\* ---- the render host task t (startRenderHost)
\* if (app->renderer != NULL): the call follows, else delay(50) and again.
RenderHostTest(t) ==
  /\ t \in 1..Len(tasks)
  /\ tasks[t].alive /\ tasks[t].pc = "test"
  /\ renderer # NULL
  /\ tasks' = [tasks EXCEPT ![t].pc = "call"]
  /\ UNCHANGED <<lightMode, renderHostHandle, renderer, instances,
                 renderListeners, vehicleState, queues, trace, layers>>

\* renderer->process() as the core sees it: the renderer takes the commands
\* waiting in its queues.  processed records whether process() ran on the
\* instance at all, and whether its latest run came after a shutdown().
RendererProcess(instance) ==
  [instance EXCEPT
     !.processed = IF instance.shutdowns > 0 THEN "afterShutdown" ELSE "live",
     !.brakelightQueue.items = <<>>,
     !.turnlightQueue.items = <<>>,
     !.headlightQueue.items = <<>>]

\* app->renderer->process(); delay(50);
RenderHostProcess(t) ==
  /\ t \in 1..Len(tasks)
  /\ tasks[t].alive /\ tasks[t].pc = "call"
  /\ tasks' = [tasks EXCEPT ![t].pc = IF renderer = NULL THEN "crashed" ELSE "test"]
  /\ instances' = IF renderer = NULL THEN instances
                  ELSE [instances EXCEPT ![renderer] = RendererProcess(@)]
  /\ UNCHANGED <<lightMode, renderHostHandle, renderer, renderListeners,
                 vehicleState, queues, trace, layers>>

\* ---- the environment: producers of the inbound queues, listeners
\* A configuration-change signal is posted.
ConfigSignal(valid) ==
  /\ configUpdatedQueue' = xQueueOverwrite(configUpdatedQueue, valid, ConfigQueueLen)
  /\ UNCHANGED <<app, lightModeQueue, vehicleQueue, trace, layers>>

\* A mode request is posted; it replaces an undelivered one.
RequestLightMode(mode) ==
  /\ lightModeQueue' = xQueueOverwrite(lightModeQueue, mode, LightModeQueueLen)
  /\ UNCHANGED <<app, configUpdatedQueue, vehicleQueue, trace, layers>>

\* A vehicle state sample is posted; dropped when the queue is full.
VehicleStateChanged(state) ==
  /\ Len(vehicleQueue) < MaxPending
  /\ vehicleQueue' = xQueueSend(vehicleQueue, state, VehicleQueueLen)
  /\ UNCHANGED <<app, configUpdatedQueue, lightModeQueue, trace, layers>>

\* A sample is posted while none is waiting.
VehicleSample(state) ==
  /\ Len(vehicleQueue) = 0
  /\ VehicleStateChanged(state)

\* addRenderListener(listener): append-only registration.
AddRenderListener(hasQueue) ==
  /\ Len(renderListeners) < MaxListeners
  /\ renderListeners' =
       Append(renderListeners,
              [lightsChangedQueue |-> IF hasQueue THEN NewQueue ELSE NullQueue])
  /\ UNCHANGED <<lightMode, renderHostHandle, renderer, instances, tasks,
                 vehicleState, queues, trace, layers>>

\* Listener i takes the oldest notification out of its queue.
ListenerReceive(i) ==
  /\ i \in 1..Len(renderListeners)
  /\ Len(renderListeners[i].lightsChangedQueue.items) > 0
  /\ renderListeners' =
       [renderListeners EXCEPT ![i].lightsChangedQueue.items = Tail(@)]
  /\ UNCHANGED <<lightMode, renderHostHandle, renderer, instances, tasks,
                 vehicleState, queues, trace, layers>>

RenderHost ==
  \E t \in 1..MaxRenderers :
    RenderHostTest(t) \/ RenderHostProcess(t)

\* ---- the renderer lifecycle: mode changes, power down, the render host
Next ==
  \/ \E m \in LightModes : OnConfigUpdated(m, TRUE)
  \/ \E m \in LightModes : SetLightMode(m, TRUE)
  \/ OnPowerDown
  \/ RenderHost

Spec == Init /\ [][Next]_vars

\* ---- processing cycles fed by the configuration and mode-change queues
NextCycle ==
  \/ \E m \in LightModes : Process(m, TRUE)
  \/ \E m \in LightModes : OnConfigUpdated(m, TRUE)
  \/ \E m \in LightModes : SetLightMode(m, TRUE)
  \/ \E valid \in BOOLEAN : ConfigSignal(valid)
  \/ \E m \in LightModes : RequestLightMode(m)

SpecCycle == Init /\ [][NextCycle]_vars

\* ---- processing cycles fed by vehicle state samples, one renderer
NextVehicle ==
  \/ Process("RunningMode", TRUE)
  \/ SetLightMode("RunningMode", TRUE)
  \/ \E state \in SampleStates : VehicleStateChanged(state)
  \/ RenderHost

SpecVehicle == Init /\ [][NextVehicle]_vars

\* ---- processing cycles on one sample at a time, over every vehicle state
NextMapping ==
  \/ Process("RunningMode", TRUE)
  \/ SetLightMode("RunningMode", TRUE)
  \/ \E state \in MappingStates : VehicleSample(state)
  \/ RenderHost

SpecMapping == Init /\ [][NextMapping]_vars

\* ---- listener fan-out: listeners register and receive, the brake state
\* toggles
FanoutStates ==
  {VehicleStateOf("Neutral", "Center", "TopSideUp"),
   VehicleStateOf("Braking", "Center", "TopSideUp")}

NextFanout ==
  \/ Process("RunningMode", TRUE)
  \/ SetLightMode("RunningMode", TRUE)
  \/ \E state \in FanoutStates : VehicleSample(state)
  \/ \E hasQueue \in BOOLEAN : AddRenderListener(hasQueue)
  \/ \E i \in 1..MaxListeners : ListenerReceive(i)

SpecFanout == Init /\ [][NextFanout]_vars

\* ---- mode changes from every source, with listeners registered
\* The modes requested in the mode change runs: a named mode, which selects
\* a pattern renderer, and a value outside the named ones.
ModeChangeModes == {"RainbowMode", "OtherMode"}

NextModeChange ==
  \/ \E m \in ModeChangeModes : Process(m, TRUE)
  \/ \E m \in ModeChangeModes : OnConfigUpdated(m, TRUE)
  \/ \E m \in ModeChangeModes : SetLightMode(m, TRUE)
  \/ \E valid \in BOOLEAN : ConfigSignal(valid)
  \/ \E m \in ModeChangeModes : RequestLightMode(m)
  \/ AddRenderListener(TRUE)
  \/ \E i \in 1..MaxListeners : ListenerReceive(i)

SpecModeChange == Init /\ [][NextModeChange]_vars

\* ---- mode changes whose renderer allocation may fail
NextFailure ==
  \/ \E m \in ModeChangeModes : SetLightMode(m, TRUE)
  \/ \E m \in ModeChangeModes : SetLightModeBadAlloc(m)
  \/ \E m \in ModeChangeModes : SetLightModeAbort(m)
  \/ RenderHost

SpecFailure == Init /\ [][NextFailure]_vars

\* ---- cycles that find a configuration signal, a mode request and a vehicle
\* state pending together
NextOrder ==
  \/ \E m \in ModeChangeModes : Process(m, TRUE)
  \/ \E valid \in BOOLEAN : ConfigSignal(valid)
  \/ \E m \in ModeChangeModes : RequestLightMode(m)
  \/ \E state \in FanoutStates : VehicleSample(state)

SpecOrder == Init /\ [][NextOrder]_vars

\* ---- backpressure: the render host consumes at its own pace, or not at
\* all, and the listeners never do, while cycles keep sending
\* The board is turned over and back: every sample changes the orientation,
\* which sends to all three command queues.
BackpressureStates ==
  {VehicleStateOf("Neutral", "Center", "TopSideUp"),
   VehicleStateOf("Neutral", "Center", "OtherOrientation")}

NextBackpressure ==
  \/ Process("RunningMode", TRUE)
  \/ SetLightMode("RunningMode", TRUE)
  \/ \E state \in BackpressureStates : VehicleSample(state)
  \/ AddRenderListener(TRUE)
  \/ RenderHost

SpecBackpressure == Init /\ [][NextBackpressure]_vars

\* ---------------------------------------------------- the effect layer model
\* struct LightingParameters.  Regions, effects and colours are a few values
\* each; the three colours of a sample go together.
LightingParametersOf(region, effect, layer, color, duration) ==
  [region |-> region, effect |-> effect, layer |-> layer, first |-> color,
   second |-> color, third |-> color, duration |-> duration]

\* For every layer: a parameter set, and one that differs from it in the
\* region only, in the effect only, in the colours only, in the duration
\* only.
LightingParameterSamples ==
  UNION {{LightingParametersOf("front", "Static", layer, "red", 0),
          LightingParametersOf("rear", "Static", layer, "red", 0),
          LightingParametersOf("front", "Blink", layer, "red", 0),
          LightingParametersOf("front", "Static", layer, "blue", 0),
          LightingParametersOf("front", "Static", layer, "red", 500)}
         : layer \in 1..MaxLayer}

\* An operator< that falls back on the duration when the layers are equal.
LessThenByDuration(lhs, rhs) ==
  \/ lhs.layer < rhs.layer
  \/ lhs.layer = rhs.layer /\ lhs.duration < rhs.duration

\* The six comparison operators of LightingParameters.
Less(lhs, rhs) == lhs.layer < rhs.layer
Greater(lhs, rhs) == lhs.layer > rhs.layer
LessEqual(lhs, rhs) == lhs.layer <= rhs.layer
GreaterEqual(lhs, rhs) == lhs.layer >= rhs.layer
Equal(lhs, rhs) == lhs.layer = rhs.layer
NotEqual(lhs, rhs) == lhs.layer # rhs.layer

\* Sorting a collection with operator<: each element goes before the first
\* one it is less than.
RECURSIVE InsertSorted(_, _)
InsertSorted(sorted, p) ==
  IF sorted = <<>> THEN <<p>>
  ELSE IF Less(p, Head(sorted)) THEN <<p>> \o sorted
  ELSE <<Head(sorted)>> \o InsertSorted(Tail(sorted), p)

RECURSIVE SortParameters(_)
SortParameters(collection) ==
  IF collection = <<>> THEN <<>>
  ELSE InsertSorted(SortParameters(SubSeq(collection, 1, Len(collection) - 1)),
                    collection[Len(collection)])

\* The collections to compare and sort.
ParameterCollections ==
  UNION {[1..n -> LightingParameterSamples] : n \in 0..MaxParameters}

InitLayers ==
  /\ lightMode \in {"RunningMode"}
  /\ renderHostHandle = NULL
  /\ renderer = NULL
  /\ instances = <<>>
  /\ tasks = <<>>
  /\ renderListeners = <<>>
  /\ vehicleState = VehicleStateOf("Neutral", "Center", "TopSideUp")
  /\ configUpdatedQueue = <<>>
  /\ lightModeQueue = <<>>
  /\ vehicleQueue = <<>>
  /\ trace = <<>>
  /\ parameters \in ParameterCollections
  /\ outcome = [op |-> "none"]

\* The six operators applied to the first two parameters of the collection.
Compare ==
  /\ outcome.op = "none"
  /\ Len(parameters) >= 2
  /\ LET lhs == parameters[1]
         rhs == parameters[2]
     IN  outcome' =
           [op |-> "compare", lhs |-> lhs, rhs |-> rhs,
            less |-> Less(lhs, rhs), greater |-> Greater(lhs, rhs),
            lessEqual |-> LessEqual(lhs, rhs),
            greaterEqual |-> GreaterEqual(lhs, rhs),
            equal |-> Equal(lhs, rhs), notEqual |-> NotEqual(lhs, rhs)]
  /\ UNCHANGED <<app, queues, trace, parameters>>

\* The collection is sorted.
Sort ==
  /\ outcome.op = "none"
  /\ parameters' = SortParameters(parameters)
  /\ outcome' = [op |-> "sort", input |-> parameters]
  /\ UNCHANGED <<app, queues, trace>>

NextLayers == Compare \/ Sort

SpecLayers == InitLayers /\ [][NextLayers]_vars

\* ================================================================ properties
\* Helpers over the trace of the last orchestrator handler.
Positions == 1..Len(trace)
Count(op) == Cardinality({k \in Positions : trace[k].op = op})
AliveTasks == {t \in 1..Len(tasks) : tasks[t].alive}
ActiveInstances == {r \in 1..Len(instances) : instances[r].shutdowns = 0}

\* The render host tasks running when the handler reached position c of the
\* trace: created before it, and not deleted before it.
RunningAt(c) ==
  {t \in 1..Len(tasks) :
     /\ ~ \E k \in Positions :
            /\ k > c
            /\ trace[k].op = "xTaskCreatePinnedToCore"
            /\ trace[k].task = t
     /\ \/ tasks[t].alive
        \/ \E k \in Positions :
             k > c /\ trace[k].op = "vTaskDelete" /\ trace[k].task = t}

\* C1: a mode change made while a render host task runs deletes that task
\* and shuts the old renderer down before it constructs the new renderer,
\* and creates the new task only after that; so a renderer that has
\* processed is never preceded by a renderer that was not shut down.
C1_TeardownBeforeConstruction ==
  /\ \A c \in Positions, k \in Positions :
       ( /\ c < k
         /\ trace[c].op = "setLightMode"
         /\ trace[k].op = "new"
         /\ \A i \in Positions : (c < i /\ i < k) => trace[i].op # "setLightMode"
         /\ RunningAt(c) # {} )
       => /\ \A t \in RunningAt(c) :
               \E i \in Positions :
                 c < i /\ i < k /\ trace[i].op = "vTaskDelete" /\ trace[i].task = t
          /\ \E j \in Positions :
               /\ c < j /\ j < k
               /\ trace[j].op = "shutdown"
               /\ trace[j].instance = trace[k].instance - 1
  /\ \A r \in 2..Len(instances) :
       instances[r].processed # "never" => instances[r - 1].shutdowns > 0

\* C2: at most one render host task is alive and at most one renderer
\* instance is constructed and not yet shut down.
C2_AtMostOneTaskAndRenderer ==
  /\ Cardinality(AliveTasks) <= 1
  /\ Cardinality(ActiveInstances) <= 1

\* C3: the render host loop never runs process() on a renderer on which
\* shutdown() has been called.
C3_NoProcessAfterShutdown ==
  \A r \in 1..Len(instances) : instances[r].processed # "afterShutdown"

\* ---- C4, C5: setLightMode with the current mode (SpecCycle)
\* The fan-outs of the trace that carry no command (those of setLightMode).
ModeNotifications ==
  Cardinality({k \in Positions :
                 /\ trace[k].op = "notify"
                 /\ trace[k].commands.brakeCommand = "NoCommand"
                 /\ trace[k].commands.turnCommand = "NoCommand"
                 /\ trace[k].commands.headlightCommand = "NoCommand"})

\* The last handler called setLightMode exactly twice, with one mode.
CalledTwiceWithSameMode ==
  /\ Count("setLightMode") = 2
  /\ \A c \in Positions, d \in Positions :
       (trace[c].op = "setLightMode" /\ trace[d].op = "setLightMode")
         => trace[c].mode = trace[d].mode

\* C4 as stated: two calls of setLightMode(m) in a row produce exactly one
\* renderer construction and exactly one listener notification, for every m.
C4_TwiceGivesExactlyOne ==
  CalledTwiceWithSameMode => (Count("new") = 1 /\ ModeNotifications = 1)

\* C4 as amended: two calls of setLightMode(m) in a row (a cycle whose
\* configuration signal and mode request both name m) produce one renderer
\* construction and one fan-out in total when m differs from the mode current
\* before the first call, and none when m is already the current mode.
C4_TwiceGivesOneIffModeDiffers ==
  [][ \A m \in LightModes :
        ( /\ configUpdatedQueue = <<TRUE>>
          /\ lightModeQueue = <<m>>
          /\ Process(m, TRUE) )
        => LET n == IF lightMode # m THEN 1 ELSE 0
           IN  /\ CalledTwiceWithSameMode'
               /\ Count("new")' = n
               /\ ModeNotifications' = n
               /\ Len(instances') = Len(instances) + n ]_vars

C4_Witness ==
  /\ CalledTwiceWithSameMode
  /\ Count("new") = 1
  /\ ModeNotifications = 1

LastPending == vehicleQueue[Len(vehicleQueue)]

\* The commands each category of state change maps to.
AccelerationCommands == {"LightsBrake", "LightsRunning"}
TurnCommands ==
  {"LightsTurnCenter", "LightsTurnLeft", "LightsTurnRight", "LightsTurnHazard"}
OrientationCommands == {"LightsOff", "LightsReset"}

\* The last handler sent a command of the category to a renderer queue.
Sent(category) ==
  \E k \in Positions : trace[k].op = "send" /\ trace[k].command \in category

\* The last handler notified the listeners of a command of the category.
Notified(category) ==
  \E k \in Positions :
    /\ trace[k].op = "notify"
    /\ \/ trace[k].commands.brakeCommand \in category
       \/ trace[k].commands.turnCommand \in category
       \/ trace[k].commands.headlightCommand \in category

\* The bundles the last handler fanned out, and its renderer sends, in order.
Notifications ==
  LET n == SelectSeq(trace, LAMBDA e : e.op = "notify")
  IN  [k \in 1..Len(n) |-> n[k].commands]
Sends ==
  LET n == SelectSeq(trace, LAMBDA e : e.op = "send")
  IN  [k \in 1..Len(n) |-> <<n[k].channel, n[k].command>>]
Evaluations ==
  LET n == SelectSeq(trace, LAMBDA e : e.op = "evaluate")
  IN  [k \in 1..Len(n) |-> n[k].state]

\* C6: a cycle that finds vehicle states pending empties the queue, evaluates
\* once, on the last state received, against the stored snapshot; every
\* command it sends or notifies is the mapping of a field of that last state
\* which differs from the snapshot; the snapshot then equals the last state.
C6_Coalescing ==
  [][ (Len(vehicleQueue) > 0 /\ Process("RunningMode", TRUE))
      => /\ vehicleQueue' = <<>>
         /\ Evaluations' = <<LastPending>>
         /\ vehicleState' = LastPending
         /\ \A k \in 1..Len(Sends') :
              \/ /\ Sends'[k][2] = AccelerationCommand(LastPending.acceleration)
                 /\ LastPending.acceleration # vehicleState.acceleration
              \/ /\ Sends'[k][2] = TurnCommand(LastPending.turn)
                 /\ LastPending.turn # vehicleState.turn
              \/ /\ Sends'[k][2] = OrientationCommand(LastPending.orientation)
                 /\ LastPending.orientation # vehicleState.orientation
         /\ Len(Notifications') = Len(Sends') ]_vars

\* Three states were pending, one evaluation was made, and the renderer
\* was sent a command.
C6_Witness ==
  /\ Len(trace) > 0
  /\ trace[1].op = "process"
  /\ trace[1].pending = 3
  /\ Evaluations = <<vehicleState>>
  /\ Len(Sends) > 0

\* C7: while a renderer is active, the command mapped for a changed field is
\* the one of the table: Braking gives LightsBrake and any other acceleration
\* LightsRunning, on the brake queue; Left, Right, Hazard give LightsTurnLeft,
\* LightsTurnRight, LightsTurnHazard and any other turn LightsTurnCenter, on
\* the turn queue; TopSideUp gives LightsOff and any other orientation
\* LightsReset, on the turn, brake and headlight queues.
C7_CommandTable ==
  [][ \A v \in VehicleStates :
        (vehicleQueue = <<v>> /\ renderer # NULL /\ Process("RunningMode", TRUE))
        => LET brake == IF v.acceleration = "Braking"
                          THEN "LightsBrake" ELSE "LightsRunning"
               turn == IF v.turn = "Left" THEN "LightsTurnLeft"
                       ELSE IF v.turn = "Right" THEN "LightsTurnRight"
                       ELSE IF v.turn = "Hazard" THEN "LightsTurnHazard"
                       ELSE "LightsTurnCenter"
               all == IF v.orientation = "TopSideUp"
                        THEN "LightsOff" ELSE "LightsReset"
               expected ==
                 (IF v.acceleration # vehicleState.acceleration
                    THEN {<<"brakelightQueue", brake>>} ELSE {})
                 \cup (IF v.turn # vehicleState.turn
                         THEN {<<"turnlightQueue", turn>>} ELSE {})
                 \cup (IF v.orientation # vehicleState.orientation
                         THEN {<<"turnlightQueue", all>>,
                               <<"brakelightQueue", all>>,
                               <<"headlightQueue", all>>}
                         ELSE {})
           IN  /\ {Sends'[k] : k \in 1..Len(Sends')} = expected
               /\ Len(Sends') = Cardinality(expected) ]_vars

\* A Hazard turn and a non-TopSideUp orientation have each been mapped.
C7_Witness ==
  /\ renderer # NULL
  /\ \/ /\ vehicleState.turn = "Hazard"
        /\ Sends = << <<"turnlightQueue", "LightsTurnHazard">> >>
     \/ /\ vehicleState.turn = "OtherTurn"
        /\ Sends = << <<"turnlightQueue", "LightsTurnCenter">> >>

\* The orientation default branch has been taken, on all three queues.
C7_WitnessOrientation ==
  /\ renderer # NULL
  /\ vehicleState.orientation = "OtherOrientation"
  /\ Sends = << <<"turnlightQueue", "LightsReset">>,
                <<"brakelightQueue", "LightsReset">>,
                <<"headlightQueue", "LightsReset">> >>

\* Whether the last pending state differs from the snapshot in the field.
Differs(field) == LastPending[field] # vehicleState[field]

\* C8 as stated: in a cycle that received a vehicle state, a command of a
\* category is sent and notified if and only if that field of the new state
\* differs from the snapshot.
C8_EmittedIffChanged ==
  [][ (Len(vehicleQueue) > 0 /\ Process("RunningMode", TRUE))
      => /\ Sent(AccelerationCommands)' <=> Differs("acceleration")
         /\ Notified(AccelerationCommands)' <=> Differs("acceleration")
         /\ Sent(TurnCommands)' <=> Differs("turn")
         /\ Notified(TurnCommands)' <=> Differs("turn")
         /\ Sent(OrientationCommands)' <=> Differs("orientation")
         /\ Notified(OrientationCommands)' <=> Differs("orientation") ]_vars

\* C8 as amended: while a renderer is active, a command of a category is
\* sent and notified if and only if that field of the new state differs from
\* the snapshot; while no renderer is active nothing is sent or notified.
C8_EmittedIffChangedWithRenderer ==
  [][ (Len(vehicleQueue) > 0 /\ Process("RunningMode", TRUE))
      => IF renderer # NULL
           THEN /\ Sent(AccelerationCommands)' <=> Differs("acceleration")
                /\ Notified(AccelerationCommands)' <=> Differs("acceleration")
                /\ Sent(TurnCommands)' <=> Differs("turn")
                /\ Notified(TurnCommands)' <=> Differs("turn")
                /\ Sent(OrientationCommands)' <=> Differs("orientation")
                /\ Notified(OrientationCommands)' <=> Differs("orientation")
           ELSE Sends' = <<>> /\ Notifications' = <<>> ]_vars

\* A cycle evaluated a state whose acceleration and turn had changed and
\* whose orientation had not: no orientation command was emitted.
C8_Witness ==
  /\ renderer # NULL
  /\ Evaluations = <<vehicleState>>
  /\ Sent(TurnCommands) /\ Notified(TurnCommands)
  /\ Sent(AccelerationCommands) /\ Notified(AccelerationCommands)
  /\ ~ Sent(OrientationCommands) /\ ~ Notified(OrientationCommands)

\* ---- C9: the end-to-end scenario
ScenarioFirst == VehicleStateOf("Neutral", "Center", "TopSideUp")
ScenarioSecond == VehicleStateOf("Braking", "Left", "TopSideUp")
Bundle(brake, turn, headlight) ==
  [mode |-> "RunningMode", brakeCommand |-> brake, turnCommand |-> turn,
   headlightCommand |-> headlight]

\* The cycle that takes the snapshot from the first scenario state to the
\* second, with mode Running active.
SecondTransition ==
  /\ lightMode = "RunningMode"
  /\ renderer # NULL
  /\ vehicleState = ScenarioFirst
  /\ Len(vehicleQueue) > 0
  /\ LastPending = ScenarioSecond
  /\ Process("RunningMode", TRUE)

\* The cycle that processes the first scenario state, with mode Running
\* active.
FirstTransition ==
  /\ lightMode = "RunningMode"
  /\ renderer # NULL
  /\ Len(vehicleQueue) > 0
  /\ LastPending = ScenarioFirst
  /\ Process("RunningMode", TRUE)

\* C9 as stated: the second transition yields one notification carrying
\* brake LightsBrake and turn LightsTurnLeft, and no LightsOff.
C9_OneBundlePerTransition ==
  [][ SecondTransition
      => Notifications' = <<Bundle("LightsBrake", "LightsTurnLeft", "NoCommand")>>
    ]_vars

\* C9 as amended: every notification carries one command.  Processing the
\* first state notifies brake LightsRunning alone if the acceleration
\* differed from the snapshot, then turn LightsTurnCenter alone if the turn
\* differed (then LightsOff for turn, brake and headlight if the orientation
\* differed); the second transition then yields exactly two notifications, in
\* order brake LightsBrake alone and turn LightsTurnLeft alone, and no
\* LightsOff.
C9_OneBundlePerCommand ==
  [][ /\ SecondTransition
        => Notifications' =
             << Bundle("LightsBrake", "NoCommand", "NoCommand"),
                Bundle("NoCommand", "LightsTurnLeft", "NoCommand") >>
      /\ FirstTransition
        => Notifications' =
             (IF vehicleState.acceleration # "Neutral"
                THEN <<Bundle("LightsRunning", "NoCommand", "NoCommand")>>
                ELSE <<>>)
             \o (IF vehicleState.turn # "Center"
                   THEN <<Bundle("NoCommand", "LightsTurnCenter", "NoCommand")>>
                   ELSE <<>>)
             \o (IF vehicleState.orientation # "TopSideUp"
                   THEN << Bundle("NoCommand", "LightsOff", "NoCommand"),
                           Bundle("LightsOff", "NoCommand", "NoCommand"),
                           Bundle("NoCommand", "NoCommand", "LightsOff") >>
                   ELSE <<>>) ]_vars

\* The second transition has been made.
C9_Witness ==
  /\ lightMode = "RunningMode"
  /\ vehicleState = ScenarioSecond
  /\ Evaluations = <<ScenarioSecond>>
  /\ Notifications = << Bundle("LightsBrake", "NoCommand", "NoCommand"),
                        Bundle("NoCommand", "LightsTurnLeft", "NoCommand") >>

\* ---- C10: listener fan-out
\* What a listener's queue holds after the bundles were offered to it in
\* order, each once: the ones there was room for.
Offered(queue, bundles) ==
  IF queue.created
    THEN [queue EXCEPT !.items =
            SubSeq(queue.items \o bundles, 1,
                   Min(Len(queue.items) + Len(bundles), ListenerQueueLen))]
    ELSE queue

\* C10: a handler offers every bundle it fans out once to every registered
\* listener: a listener whose queue exists and has room receives it, a
\* listener whose queue is full or absent receives nothing and keeps its
\* queue content, whatever happened at the listeners before it; nothing is
\* offered again later and no listener is removed.
C10_BestEffortFanout ==
  [][ (Process("RunningMode", TRUE) \/ SetLightMode("RunningMode", TRUE))
      => /\ Len(renderListeners') = Len(renderListeners)
         /\ \A i \in 1..Len(renderListeners) :
              renderListeners'[i].lightsChangedQueue =
                Offered(renderListeners[i].lightsChangedQueue, Notifications')
    ]_vars

\* One bundle was fanned out to two listeners: the first one's queue was
\* full and still holds an older bundle, the second one received the bundle.
C10_Witness ==
  /\ Len(Notifications) = 1
  /\ Len(renderListeners) = 2
  /\ renderListeners[1].lightsChangedQueue.created
  /\ Len(renderListeners[1].lightsChangedQueue.items) = ListenerQueueLen
  /\ \A k \in 1..ListenerQueueLen :
       renderListeners[1].lightsChangedQueue.items[k] # Notifications[1]
  /\ renderListeners[2].lightsChangedQueue.items = <<Notifications[1]>>

\* One bundle was fanned out to two listeners: the first one has no queue,
\* the second one received the bundle.
C10_WitnessAbsent ==
  /\ Len(Notifications) = 1
  /\ Len(renderListeners) = 2
  /\ ~ renderListeners[1].lightsChangedQueue.created
  /\ renderListeners[2].lightsChangedQueue.items = <<Notifications[1]>>

\* ---- C11: no cycle waits for a consumer
\* The commands the last handler sent to one command queue of one renderer.
SendsTo(r, channel) ==
  LET n == SelectSeq(trace, LAMBDA e :
                       e.op = "send" /\ e.instance = r /\ e.channel = channel)
  IN  [k \in 1..Len(n) |-> n[k].command]

\* What a queue of the given depth holds after the items were sent to it in
\* order with no waiting: the ones there was room for.
Accepted(items, sent, depth) ==
  SubSeq(items \o sent, 1, Min(Len(items) + Len(sent), depth))

CommandChannels == {"brakelightQueue", "turnlightQueue", "headlightQueue"}

\* C11: a processing cycle started in any reachable state, whatever the
\* renderer command queues and the listener queues hold and whether or not
\* the render host ever took a command, runs to its last statement after at
\* most five sends to renderer queues and five fan-outs; it leaves the three inbound queues
\* empty, stores the last pending state, and every send it makes to a
\* renderer command queue or a listener queue is taken if there is room and
\* dropped if the queue is full, the content of a full queue staying as it
\* was.
C11_NeverStalls ==
  /\ [](LET s == process(AppState, configUpdatedQueue, lightModeQueue,
                         vehicleQueue, "RunningMode", TRUE)
        IN  /\ s.trace[1].op = "process"
            /\ Len(SelectSeq(s.trace, LAMBDA e : e.op = "send")) <= 5
            /\ Len(SelectSeq(s.trace, LAMBDA e : e.op = "notify")) <= 5
            /\ s.vehicleState =
                 IF Len(vehicleQueue) > 0 THEN LastPending ELSE vehicleState)
  /\ [][ Process("RunningMode", TRUE)
         => /\ configUpdatedQueue' = <<>>
            /\ lightModeQueue' = <<>>
            /\ vehicleQueue' = <<>>
            /\ Len(vehicleQueue) > 0 => vehicleState' = LastPending
            /\ Len(instances') = Len(instances)
            /\ \A r \in 1..Len(instances), channel \in CommandChannels :
                 instances'[r][channel].items =
                   Accepted(instances[r][channel].items, SendsTo(r, channel)',
                            RendererQueueLen)
            /\ \A i \in 1..Len(renderListeners) :
                 renderListeners'[i].lightsChangedQueue =
                   Offered(renderListeners[i].lightsChangedQueue, Notifications')
       ]_vars

\* A cycle ran to its end although the brake queue of the renderer and the
\* queue of a listener were full: the command and the bundle it sent there
\* were dropped, and the state was stored.
C11_Witness ==
  /\ renderer # NULL
  /\ Evaluations = <<vehicleState>>
  /\ \E k \in 1..Len(SendsTo(renderer, "brakelightQueue")) :
       /\ Len(instances[renderer].brakelightQueue.items) = RendererQueueLen
       /\ \A j \in 1..RendererQueueLen :
            instances[renderer].brakelightQueue.items[j]
              # SendsTo(renderer, "brakelightQueue")[k]
  /\ \E i \in 1..Len(renderListeners) :
       /\ Len(renderListeners[i].lightsChangedQueue.items) = ListenerQueueLen
       /\ \A j \in 1..ListenerQueueLen, k \in 1..Len(Notifications) :
            renderListeners[i].lightsChangedQueue.items[j] # Notifications[k]

\* ---- C12: the fan-out of a mode change
\* The bundle of a mode change: the mode, and no command.
ModeBundle(mode) ==
  [mode |-> mode, brakeCommand |-> "NoCommand", turnCommand |-> "NoCommand",
   headlightCommand |-> "NoCommand"]

\* The bundles due when setLightMode is called with the requested modes in
\* order, starting from the current mode: one for each call whose mode
\* differs from the mode in effect at that call.
RECURSIVE ModeBundles(_, _)
ModeBundles(current, requested) ==
  IF requested = <<>> THEN <<>>
  ELSE IF Head(requested) # current
    THEN <<ModeBundle(Head(requested))>> \o ModeBundles(Head(requested), Tail(requested))
    ELSE ModeBundles(current, Tail(requested))

\* The modes a cycle calls setLightMode with, in order.
RequestedIn(configured) ==
  (IF configUpdatedQueue = <<TRUE>> THEN <<configured>> ELSE <<>>) \o lightModeQueue

\* C12: every call of setLightMode with a mode other than the current one
\* (direct, from onConfigUpdated, or from a cycle, which may make two) makes
\* exactly one fan-out, whose bundle carries the new mode and NoCommand for
\* brake, turn and headlight; a call with the current mode makes none; every
\* listener is offered exactly these bundles, in order.
C12_OneFanoutPerModeChange ==
  [][ \A m \in ModeChangeModes :
        LET Fanned(due) ==
              /\ Notifications' = due
              /\ due # <<>> => lightMode' = due[Len(due)].mode
              /\ \A i \in 1..Len(renderListeners) :
                   renderListeners'[i].lightsChangedQueue =
                     Offered(renderListeners[i].lightsChangedQueue, due)
        IN  /\ (SetLightMode(m, TRUE) \/ OnConfigUpdated(m, TRUE))
                 => Fanned(ModeBundles(lightMode, <<m>>))
            /\ (vehicleQueue = <<>> /\ Process(m, TRUE))
                 => Fanned(ModeBundles(lightMode, RequestedIn(m))) ]_vars

\* One cycle made two mode changes, the configured mode then the requested
\* one: two fan-outs, each with its own mode, and a listener holds the first.
C12_Witness ==
  /\ Count("setLightMode") = 2
  /\ Len(Notifications) = 2
  /\ Notifications[1].mode # Notifications[2].mode
  /\ Notifications[2] = ModeBundle(lightMode)
  /\ \E i \in 1..Len(renderListeners) :
       renderListeners[i].lightsChangedQueue.items = <<Notifications[1]>>

\* ---- C13: a mode change whose renderer construction fails
\* The last handler was a setLightMode whose construction failed.
ConstructionFailed ==
  \E k \in Positions : trace[k].op = "bad_alloc"

\* The commands a cycle started in this state on the vehicle state v would
\* send to renderer queues.
WouldSend(v) ==
  SelectSeq(process(AppState, <<>>, <<>>, <<v>>, lightMode, TRUE).trace,
            LAMBDA e : e.op = "send")

\* C13: after a mode change whose construction of the new renderer failed,
\* and until the next handler runs, no renderer is active: the renderer
\* handle is NULL, so it does not reference the old renderer; no render
\* host task is alive to call into a renderer; and a cycle sends no command
\* to any renderer queue, whatever vehicle state it receives.
C13_FailureLeavesNoRenderer ==
  ConstructionFailed
    => /\ renderer = NULL
       /\ AliveTasks = {}
       /\ \A v \in VehicleStates : WouldSend(v) = <<>>

\* ---- C14: shutdown() once per renderer
\* C14: over any sequence of setLightMode and onPowerDown calls, every
\* renderer instance that has been replaced has had shutdown() called on it
\* exactly once, and no instance has had it called twice.
C14_ShutdownExactlyOnce ==
  \A r \in 1..Len(instances) :
    /\ instances[r].shutdowns <= 1
    /\ r # renderer => instances[r].shutdowns = 1

\* The second half alone: no instance has had shutdown() called twice.
C14_NoSecondShutdown ==
  \A r \in 1..Len(instances) : instances[r].shutdowns <= 1

\* ---- C15: the mode-change queue
\* C15: the mode-change queue holds at most one request and a new request
\* takes the place of an undelivered one; a cycle takes the pending request
\* out of the queue and calls setLightMode with it once, after the call for
\* a configuration signal if there is one, so that the mode in effect after
\* the cycle is the latest request made before it.
C15_SingleSlotLatestWins ==
  [][ /\ Len(lightModeQueue) <= 1
      /\ \A m \in LightModes :
           RequestLightMode(m) => lightModeQueue' = <<m>>
      /\ \A configured \in LightModes :
           Process(configured, TRUE)
             => /\ lightModeQueue' = <<>>
                /\ Count("setLightMode")' =
                     (IF configUpdatedQueue = <<TRUE>> THEN 1 ELSE 0)
                       + Len(lightModeQueue)
                /\ lightModeQueue # <<>>
                     => /\ lightMode' = lightModeQueue[Len(lightModeQueue)]
                        /\ \E k \in 1..Len(trace') :
                             /\ trace'[k].op = "setLightMode"
                             /\ trace'[k].mode = lightModeQueue[Len(lightModeQueue)]
                             /\ \A j \in (k + 1)..Len(trace') :
                                  trace'[j].op # "setLightMode" ]_vars

\* A cycle applied the pending request, and only it: one setLightMode call,
\* a renderer built for the requested mode, the queue empty again.
C15_Witness ==
  /\ Len(trace) > 0
  /\ trace[1].op = "process"
  /\ Count("setLightMode") = 1
  /\ Count("onConfigUpdated") = 0
  /\ \E k \in Positions : trace[k].op = "setLightMode" /\ trace[k].mode = lightMode
  /\ Count("new") = 1
  /\ lightModeQueue = <<>>

\* ---- C16: the order of LightingParameters
LayersOf(collection) == [k \in 1..Len(collection) |-> collection[k].layer]

\* How many times p occurs in the collection.
Occurrences(collection, p) ==
  Cardinality({k \in 1..Len(collection) : collection[k] = p})

\* C16: each of the six operators gives what the same comparison of the two
\* layer fields gives, whatever the other fields are, so parameters of equal
\* layer compare equal (== holds, != < > do not, <= >= hold); sorting a
\* collection with operator< gives the same parameters in ascending layer
\* order, and layers 3, 1, 2 come out as 1, 2, 3.
C16_OrderByLayerOnly ==
  /\ outcome.op = "compare"
       => LET a == outcome.lhs.layer
              b == outcome.rhs.layer
          IN  /\ outcome.less <=> a < b
              /\ outcome.greater <=> a > b
              /\ outcome.lessEqual <=> a <= b
              /\ outcome.greaterEqual <=> a >= b
              /\ outcome.equal <=> a = b
              /\ outcome.notEqual <=> a # b
  /\ outcome.op = "sort"
       => /\ Len(parameters) = Len(outcome.input)
          /\ \A p \in LightingParameterSamples :
               Occurrences(parameters, p) = Occurrences(outcome.input, p)
          /\ \A k \in 1..(Len(parameters) - 1) :
               parameters[k].layer <= parameters[k + 1].layer
          /\ LayersOf(outcome.input) = <<3, 1, 2>>
               => LayersOf(parameters) = <<1, 2, 3>>

\* Two parameters of one layer and different colours were compared and came
\* out equal.
C16_Witness ==
  /\ outcome.op = "compare"
  /\ outcome.lhs.layer = outcome.rhs.layer
  /\ outcome.lhs.first # outcome.rhs.first
  /\ outcome.equal /\ ~ outcome.notEqual /\ ~ outcome.less /\ ~ outcome.greater

\* Layers 3, 1, 2 were sorted into 1, 2, 3.
C16_WitnessSorted ==
  /\ outcome.op = "sort"
  /\ LayersOf(outcome.input) = <<3, 1, 2>>
  /\ LayersOf(parameters) = <<1, 2, 3>>

\* ---- C17: the order of service within a cycle
\* The handler calls and evaluations of the last cycle, in order.
Steps ==
  SelectSeq(trace, LAMBDA e : e.op \in {"onConfigUpdated", "setLightMode", "evaluate"})

\* C17: a cycle empties the three inbound queues and serves them in the
\* order configuration signal, mode request, vehicle state: a true signal
\* calls onConfigUpdated and through it setLightMode with the configured
\* mode, a false signal is taken and calls nothing; the pending mode request
\* is applied next, so it is the mode in effect after the cycle; the vehicle
\* state is evaluated last, and every command of the cycle goes to the
\* renderer in place after these steps.
C17_ServiceOrder ==
  [][ \A configured \in ModeChangeModes :
        Process(configured, TRUE)
          => /\ configUpdatedQueue' = <<>>
             /\ lightModeQueue' = <<>>
             /\ vehicleQueue' = <<>>
             /\ Steps' =
                  (IF configUpdatedQueue = <<TRUE>>
                     THEN << [op |-> "onConfigUpdated"],
                             [op |-> "setLightMode", mode |-> configured] >>
                     ELSE <<>>)
                  \o (IF lightModeQueue # <<>>
                        THEN <<[op |-> "setLightMode", mode |-> lightModeQueue[1]]>>
                        ELSE <<>>)
                  \o (IF vehicleQueue # <<>>
                        THEN <<[op |-> "evaluate", state |-> LastPending]>>
                        ELSE <<>>)
             /\ lightMode' =
                  IF lightModeQueue # <<>> THEN lightModeQueue[1]
                  ELSE IF configUpdatedQueue = <<TRUE>> THEN configured
                  ELSE lightMode
             /\ renderer' = IF Count("new")' > 0 THEN Len(instances') ELSE renderer
             /\ \A k \in 1..Len(trace') :
                  trace'[k].op = "send"
                    => /\ trace'[k].instance = renderer'
                       /\ \A j \in 1..Len(trace') :
                            trace'[j].op \in {"onConfigUpdated", "setLightMode"}
                              => j < k ]_vars

\* One cycle served a true configuration signal, then a request for another
\* mode, then a vehicle state whose command went to the renderer built for
\* the requested mode.
C17_Witness ==
  /\ Len(Steps) = 4
  /\ Steps[1].op = "onConfigUpdated"
  /\ Steps[3].op = "setLightMode"
  /\ Steps[2].mode # Steps[3].mode
  /\ Steps[3].mode = lightMode
  /\ Steps[4].op = "evaluate"
  /\ Count("new") = 2
  /\ renderer = Len(instances)
  /\ \E k \in Positions : trace[k].op = "send" /\ trace[k].instance = renderer

\* ---- C18: the three command channels
\* The channels the last handler sent a command to.
ChannelsSent == {trace[k].channel : k \in {j \in Positions : trace[j].op = "send"}}

\* The items of one command queue of the active renderer.
Items(channel) == instances[renderer][channel].items

\* C18: while a renderer is active, a cycle in which only the acceleration
\* changed sends to the brake queue alone and notifies one bundle with
\* NoCommand for turn and headlight; one in which only the turn changed
\* sends to the turn queue alone and notifies one bundle with NoCommand for
\* brake and headlight; in both, the other two queues keep their content.
\* The headlight queue is sent to only when the orientation changed, and
\* then all three queues are.
C18_ChannelsNotConflated ==
  [][ (Len(vehicleQueue) > 0 /\ renderer # NULL /\ Process("RunningMode", TRUE))
      => /\ (Differs("acceleration") /\ ~ Differs("turn") /\ ~ Differs("orientation"))
              => /\ ChannelsSent' = {"brakelightQueue"}
                 /\ Len(Notifications') = 1
                 /\ Notifications'[1].brakeCommand \in AccelerationCommands
                 /\ Notifications'[1].turnCommand = "NoCommand"
                 /\ Notifications'[1].headlightCommand = "NoCommand"
                 /\ Items("turnlightQueue")' = Items("turnlightQueue")
                 /\ Items("headlightQueue")' = Items("headlightQueue")
         /\ (Differs("turn") /\ ~ Differs("acceleration") /\ ~ Differs("orientation"))
              => /\ ChannelsSent' = {"turnlightQueue"}
                 /\ Len(Notifications') = 1
                 /\ Notifications'[1].turnCommand \in TurnCommands
                 /\ Notifications'[1].brakeCommand = "NoCommand"
                 /\ Notifications'[1].headlightCommand = "NoCommand"
                 /\ Items("brakelightQueue")' = Items("brakelightQueue")
                 /\ Items("headlightQueue")' = Items("headlightQueue")
         /\ Differs("orientation") => ChannelsSent' = CommandChannels
         /\ ~ Differs("orientation")
              => /\ "headlightQueue" \notin ChannelsSent'
                 /\ ChannelsSent' # CommandChannels
         /\ \A k \in 1..Len(Notifications') :
              Cardinality({f \in {"brakeCommand", "turnCommand", "headlightCommand"} :
                             Notifications'[k][f] # "NoCommand"}) = 1 ]_vars

\* Only the acceleration changed: the brake queue took the command while the
\* turn queue kept an earlier command of its own.
C18_Witness ==
  /\ renderer # NULL
  /\ Evaluations = <<vehicleState>>
  /\ ChannelsSent = {"brakelightQueue"}
  /\ Items("brakelightQueue") \in {<<"LightsBrake">>, <<"LightsRunning">>}
  /\ Len(Items("turnlightQueue")) > 0
  /\ Len(Notifications) = 1
  /\ Notifications[1].turnCommand = "NoCommand"
  /\ Notifications[1].headlightCommand = "NoCommand"

\* ---- C19: vehicle states received while no renderer is active
\* C19: a cycle that receives a vehicle state while no renderer is active
\* sends nothing to a renderer queue and offers nothing to a listener, and
\* stores the state as the snapshot; a renderer created afterwards starts
\* with empty command queues and the snapshot as it was stored, and is sent
\* a command of a category only in a cycle whose state differs from the
\* snapshot in that field.
C19_DroppedNotReplayed ==
  [][ /\ (Len(vehicleQueue) > 0 /\ renderer = NULL /\ Process("RunningMode", TRUE))
         => /\ Sends' = <<>>
            /\ Notifications' = <<>>
            /\ renderListeners' = renderListeners
            /\ instances' = instances
            /\ renderer' = NULL
            /\ vehicleState' = LastPending
      /\ (lightMode # "RunningMode" /\ SetLightMode("RunningMode", TRUE))
         => /\ renderer' = Len(instances')
            /\ \A channel \in CommandChannels :
                 instances'[renderer'][channel].items = <<>>
            /\ Sends' = <<>>
            /\ vehicleState' = vehicleState
      /\ (Len(vehicleQueue) > 0 /\ renderer # NULL /\ Process("RunningMode", TRUE))
         => /\ Sent(AccelerationCommands)' => Differs("acceleration")
            /\ Sent(TurnCommands)' => Differs("turn")
            /\ Sent(OrientationCommands)' => Differs("orientation") ]_vars

\* With no renderer and a listener registered, a cycle received a state
\* that differs from every initial snapshot: it sent and notified nothing,
\* and stored the state.
C19_Witness ==
  /\ renderer = NULL
  /\ Evaluations = <<vehicleState>>
  /\ vehicleState \notin InitialSnapshots
  /\ Sends = <<>>
  /\ Notifications = <<>>
  /\ Len(renderListeners) > 0
  /\ \A i \in 1..Len(renderListeners) :
       renderListeners[i].lightsChangedQueue.items = <<>>

\* A renderer was created after such a change: its queues are empty.
C19_WitnessLaterRenderer ==
  /\ renderer # NULL
  /\ Count("new") = 1
  /\ vehicleState \notin InitialSnapshots
  /\ \A channel \in CommandChannels : Items(channel) = <<>>

\* ---- C20: the task handle and the renderer
\* C20: whenever the render host task handle is not NULL, the renderer is
\* not NULL.
C20_HandleImpliesRenderer ==
  renderHostHandle # NULL => renderer # NULL

\* The handle is NULL in every state: no handler stores a task handle in it,
\* so the case of C20 does not arise.
C20_HandleNeverSet ==
  renderHostHandle = NULL

====
